---------------------------- MODULE Spec2Model ----------------------------
(***************************************************************************)
(* A model of ndsemu's ARM core (exception dispatch, SWI high-level        *)
(* emulation hooks, the virtual interrupt/halt lines), of its hardware     *)
(* divisor peripheral, of the register initialisation of package hwio and  *)
(* of the touchscreen controller's transfer routine.                       *)
(*                                                                         *)
(* Machine words.  TLC's integers are 32-bit signed, so a Go uint32 or     *)
(* uint64 cannot be held in one TLC integer.  A w-bit word is therefore a  *)
(* tuple of 16-bit limbs, least significant first: a reg (uint32) is       *)
(* <<lo, hi>>, a uint64 is <<l0, l1, l2, l3>>.  All word arithmetic below  *)
(* is exact modulo 2^w.                                                    *)
(***************************************************************************)
EXTENDS Integers, Sequences, FiniteSets, TLC

VARIABLES
    cpu,    \* the arm.Cpu instance (src/unnamed/part_001:26-64)
    div,    \* the HwDivisor instance (src/divisor.go:9-15)
    regs,   \* a struct of hwio registers handed to InitRegs
            \* (src/unnamed/part_000:100-163), and what InitRegs returned
    tsc,    \* the HwTouchScreen instance (src/unnamed/part_000:221-224), the
            \* byte channel of its transfer, the transfer goroutine, its
            \* caller and the input source calling SetPen
    ev      \* the last call made on the model: its name, arguments, results
            \* and the instance as it was when the call was made

vars == <<cpu, div, regs, tsc, ev>>

\* A nil func value; a hook is <<d>>, d the cycle count it returns
Nil == <<>>

Limb == 2^16

(***************************************************************************)
(* Bit operations on naturals, bit by bit.                                 *)
(***************************************************************************)
RECURSIVE BitAnd(_, _)
BitAnd(a, b) ==
    IF a = 0 \/ b = 0 THEN 0
    ELSE (IF a % 2 = 1 /\ b % 2 = 1 THEN 1 ELSE 0) + 2 * BitAnd(a \div 2, b \div 2)

RECURSIVE BitOr(_, _)
BitOr(a, b) ==
    IF a = 0 THEN b
    ELSE IF b = 0 THEN a
    ELSE (IF a % 2 = 1 \/ b % 2 = 1 THEN 1 ELSE 0) + 2 * BitOr(a \div 2, b \div 2)

RECURSIVE BitXor(_, _)
BitXor(a, b) ==
    IF a = 0 THEN b
    ELSE IF b = 0 THEN a
    ELSE (IF a % 2 # b % 2 THEN 1 ELSE 0) + 2 * BitXor(a \div 2, b \div 2)

\* a &^ b  (Go's bit clear)
BitAndNot(a, b) == a - BitAnd(a, b)

(***************************************************************************)
(* 32-bit registers (type reg).                                            *)
(***************************************************************************)
Reg32(hi, lo) == <<lo, hi>>

Zero32 == Reg32(0, 0)

\* x + n modulo 2^32, for a small natural n
Add32(x, n) ==
    LET s == x[1] + n
    IN  <<s % Limb, (x[2] + (s \div Limb)) % Limb>>

(***************************************************************************)
(*                              THE ARM CORE                               *)
(***************************************************************************)

\* CPU modes: the 5-bit mode codes of the status register
CpuModeUser == 16
CpuModeFiq == 17
CpuModeIrq == 18
CpuModeSupervisor == 19
CpuModeAbort == 23
CpuModeUndefined == 27
CpuModeSystem == 31

CpuModes ==
    {CpuModeUser, CpuModeFiq, CpuModeIrq, CpuModeSupervisor, CpuModeAbort,
     CpuModeUndefined, CpuModeSystem}

LineFiq == 1
LineIrq == 2
LineHalt == 4

Lines == {LineFiq, LineIrq, LineHalt}

ExceptionReset == 0
ExceptionUndefined == 1
ExceptionSwi == 2
ExceptionPrefetchAbort == 3
ExceptionDataAbort == 4
ExceptionAddressOverflow == 5
ExceptionIrq == 6
ExceptionFiq == 7

Exceptions == ExceptionReset .. ExceptionFiq

\* var excMode = [8]CpuMode{...}; Go indexes from 0, a TLA+ tuple from 1
excMode ==
    <<CpuModeSupervisor, CpuModeUndefined, CpuModeSupervisor, CpuModeAbort,
      CpuModeAbort, CpuModeSupervisor, CpuModeIrq, CpuModeFiq>>

excPcOffsetArm == <<0, 4, 0, 4, 8, 4, 4, 4>>

excPcOffsetThumb == <<0, 2, 0, 4, 6, 2, 4, 4>>

(***************************************************************************)
(* The status register (type regCpsr).  Its code is not among the sources; *)
(* it is modelled from the specification: condition flags, the width flag  *)
(* T, the mask flags I and F, and the 5-bit mode, set through mode-aware   *)
(* setters of which SetMode swaps the banked registers.                    *)
(***************************************************************************)
\* Cpsr.Uint32(): NZCV in bits 31..28, I bit 7, F bit 6, T bit 5, mode 4..0
CpsrUint32(p) ==
    Reg32(p.nzcv * 4096,
          p.mode + (IF p.T THEN 32 ELSE 0) + (IF p.F THEN 64 ELSE 0)
                 + (IF p.I THEN 128 ELSE 0))

CpsrT(c) == c.Cpsr.T

CpsrGetMode(c) == c.Cpsr.mode

CpsrSetT(c, val) == [c EXCEPT !.Cpsr.T = val]

CpsrSetI(c, val) == [c EXCEPT !.Cpsr.I = val]

CpsrSetF(c, val) == [c EXCEPT !.Cpsr.F = val]

\* The field of Cpu that banks R13 and R14 of a mode (User and System share)
BankOf(mode) ==
    CASE mode = CpuModeFiq -> "FiqBank"
      [] mode = CpuModeSupervisor -> "SvcBank"
      [] mode = CpuModeAbort -> "AbtBank"
      [] mode = CpuModeIrq -> "IrqBank"
      [] mode = CpuModeUndefined -> "UndBank"
      [] OTHER -> "UsrBank"

\* Cpsr.SetMode(mode, cpu): R13 and R14 of the old mode go to its bank, those
\* of the new mode come from its bank, then the mode field changes.
CpsrSetMode(c, mode) ==
    LET old == BankOf(c.Cpsr.mode)
        new == BankOf(mode)
        saved == [c EXCEPT ![old] = <<c.Regs[13], c.Regs[14]>>]
        swapped == [saved EXCEPT !.Regs[13] = saved[new][1],
                                 !.Regs[14] = saved[new][2]]
    IN  IF old = new
        THEN [c EXCEPT !.Cpsr.mode = mode]
        ELSE [swapped EXCEPT !.Cpsr.mode = mode]

(***************************************************************************)
(* NewCpu: everything zero, mode supervisor.  swiHle holds Nil or a hook;  *)
(* a hook is modelled by the cycle count it returns.  Of the register file *)
(* the model keeps all 16 registers and the R13/R14 banks; no modelled     *)
(* operation writes R0..R12, so the R8..R12 banks of FIQ are left out.     *)
(***************************************************************************)
NewCpu ==
    [Regs |-> [r \in 0 .. 15 |-> Zero32],
     Cpsr |-> [nzcv |-> 0, I |-> FALSE, F |-> FALSE, T |-> FALSE,
               mode |-> CpuModeSupervisor],
     Clock |-> 0,
     UsrBank |-> <<Zero32, Zero32>>,
     FiqBank |-> <<Zero32, Zero32>>,
     SvcBank |-> <<Zero32, Zero32>>,
     AbtBank |-> <<Zero32, Zero32>>,
     IrqBank |-> <<Zero32, Zero32>>,
     UndBank |-> <<Zero32, Zero32>>,
     SpsrBank |-> <<Zero32, Zero32, Zero32, Zero32, Zero32>>,
     pc |-> Zero32,
     lines |-> 0,
     swiHle |-> [n \in 0 .. 255 |-> Nil],
     tightExit |-> FALSE]

SetPC(c, addr) == [c EXCEPT !.Regs[15] = addr, !.pc = addr]

\* RegSpsr(): the index in SpsrBank (from 1) of the active mode's saved
\* status register.  User and System have none: the code traps to the
\* debugger and, if resumed, falls back to SpsrBank[0].
RegSpsr(c) ==
    LET mode == CpsrGetMode(c)
    IN  CASE mode = CpuModeFiq -> 1
          [] mode = CpuModeSupervisor -> 2
          [] mode = CpuModeAbort -> 3
          [] mode = CpuModeIrq -> 4
          [] mode = CpuModeUndefined -> 5
          [] OTHER -> 1

\* The HLE branch of Exception: run the hook, pay its cycles plus 3, return.
\* The result carries the list of hooks run, by call number.
HleDispatchNoOverhead(c, num) ==
    [cpu |-> [c EXCEPT !.Clock = @ + c.swiHle[num][1]], hle |-> <<num>>]

HleDispatch(c, num) ==
    [cpu |-> [c EXCEPT !.Clock = @ + c.swiHle[num][1] + 3], hle |-> <<num>>]

\* The real exception entry, with the status register saved BEFORE the mode
\* switch (into the bank of the mode being left).
ExceptionEnterSpsrFirst(c, exc, pc) ==
    LET oldcpsr == CpsrUint32(c.Cpsr)
        c0 == IF CpsrGetMode(c) \in {CpuModeUser, CpuModeSystem}
              THEN c
              ELSE [c EXCEPT !.SpsrBank[RegSpsr(c)] = oldcpsr]
        c1 == CpsrSetT(c0, FALSE)
        c2 == CpsrSetMode(c1, excMode[exc + 1])
        c3 == CpsrSetI(c2, TRUE)
        c4 == IF exc = ExceptionReset \/ exc = ExceptionFiq
              THEN CpsrSetF(c3, TRUE) ELSE c3
        vec == Add32(Zero32, exc * 4)
    IN  [cpu |-> [c4 EXCEPT !.Regs[14] = pc, !.Regs[15] = vec, !.pc = vec,
                            !.Clock = @ + 3],
         hle |-> <<>>]

\* The real exception entry that leaves the F mask alone for every kind.
ExceptionEnterNoF(c, exc, pc) ==
    LET oldcpsr == CpsrUint32(c.Cpsr)
        c1 == CpsrSetT(c, FALSE)
        c2 == CpsrSetMode(c1, excMode[exc + 1])
        c3 == CpsrSetI(c2, TRUE)
        c5 == [c3 EXCEPT !.SpsrBank[RegSpsr(c3)] = oldcpsr]
        vec == Add32(Zero32, exc * 4)
    IN  [cpu |-> [c5 EXCEPT !.Regs[14] = pc, !.Regs[15] = vec, !.pc = vec,
                            !.Clock = @ + 3],
         hle |-> <<>>]

\* The real exception entry: adjust CPSR, save the old CPSR and the return
\* address in the new mode's bank, branch to the vector (no coprocessor 15
\* is configured in this model: the exception base is 0), pay 3 cycles.
ExceptionEnter(c, exc, pc) ==
    LET oldcpsr == CpsrUint32(c.Cpsr)
        c1 == CpsrSetT(c, FALSE)
        c2 == CpsrSetMode(c1, excMode[exc + 1])
        c3 == CpsrSetI(c2, TRUE)
        c4 == IF exc = ExceptionReset \/ exc = ExceptionFiq
              THEN CpsrSetF(c3, TRUE) ELSE c3
        c5 == [c4 EXCEPT !.SpsrBank[RegSpsr(c4)] = oldcpsr]
        vec == Add32(Zero32, exc * 4)
    IN  [cpu |-> [c5 EXCEPT !.Regs[14] = pc, !.Regs[15] = vec, !.pc = vec,
                            !.Clock = @ + 3],
         hle |-> <<>>]

\* The return address with the ARM table used in both widths.
ExceptionReturnPcArmOnly(c, exc) == Add32(c.pc, excPcOffsetArm[exc + 1])

\* pc := cpu.pc + offset of the kind in the current width
ExceptionReturnPc(c, exc) ==
    Add32(c.pc, IF CpsrT(c) THEN excPcOffsetThumb[exc + 1]
                ELSE excPcOffsetArm[exc + 1])

\* Exception(exc).  insn is the halfword the bus returns for Read16(pc-2),
\* read only when exc is a SWI.
Exception(c, exc, insn) ==
    LET pc == ExceptionReturnPc(c, exc)
        num == BitAnd(insn, 255)
    IN  IF exc = ExceptionSwi /\ c.swiHle[num] # Nil
        THEN HleDispatch(c, num)
        ELSE ExceptionEnter(c, exc, pc)

SetSwiHle(c, swi, hle) == [c EXCEPT !.swiHle[swi] = hle]

\* SetLine with the Halt line left alone
SetLineKeepHalt(c, line, val) ==
    IF val
    THEN [c EXCEPT !.tightExit = IF BitXor(c.lines, line) # 0 THEN TRUE ELSE @,
                   !.lines = BitOr(c.lines, line)]
    ELSE [c EXCEPT !.lines = BitAndNot(c.lines, line)]

\* SetLine with Halt released by the Irq line only
SetLineOnlyIrqWakes(c, line, val) ==
    IF val
    THEN LET l1 == BitOr(c.lines, line)
             l2 == IF BitAnd(line, LineIrq) # 0
                   THEN BitAndNot(l1, LineHalt) ELSE l1
         IN  [c EXCEPT !.tightExit = IF BitXor(c.lines, line) # 0 THEN TRUE ELSE @,
                       !.lines = l2]
    ELSE [c EXCEPT !.lines = BitAndNot(c.lines, line)]

SetLine(c, line, val) ==
    IF val
    THEN LET l1 == BitOr(c.lines, line)
             l2 == IF BitAnd(line, BitOr(LineFiq, LineIrq)) # 0
                   THEN BitAndNot(l1, LineHalt) ELSE l1
         IN  [c EXCEPT !.tightExit = IF BitXor(c.lines, line) # 0 THEN TRUE ELSE @,
                       !.lines = l2]
    ELSE [c EXCEPT !.lines = BitAndNot(c.lines, line)]

(***************************************************************************)
(*                          THE HARDWARE DIVISOR                           *)
(*                                                                         *)
(* 64-bit words are tuples of four 16-bit limbs, least significant first.  *)
(***************************************************************************)
Word64(l3, l2, l1, l0) == <<l0, l1, l2, l3>>

Zero64 == Word64(0, 0, 0, 0)

\* ^x
Not64(x) == <<65535 - x[1], 65535 - x[2], 65535 - x[3], 65535 - x[4]>>

\* x - y modulo 2^64
Sub64(x, y) ==
    LET d1 == x[1] - y[1]
        b1 == IF d1 < 0 THEN 1 ELSE 0
        d2 == x[2] - y[2] - b1
        b2 == IF d2 < 0 THEN 1 ELSE 0
        d3 == x[3] - y[3] - b2
        b3 == IF d3 < 0 THEN 1 ELSE 0
        d4 == x[4] - y[4] - b3
    IN  <<d1 % Limb, d2 % Limb, d3 % Limb, d4 % Limb>>

\* -x modulo 2^64
Neg64(x) == Sub64(Zero64, x)

\* x >= y, unsigned
Geq64(x, y) ==
    IF x[4] # y[4] THEN x[4] > y[4]
    ELSE IF x[3] # y[3] THEN x[3] > y[3]
    ELSE IF x[2] # y[2] THEN x[2] > y[2]
    ELSE x[1] >= y[1]

\* (x << 1) | bit, modulo 2^64
Shl1(x, bit) ==
    LET s1 == 2 * x[1] + bit
        s2 == 2 * x[2] + (s1 \div Limb)
        s3 == 2 * x[3] + (s2 \div Limb)
        s4 == 2 * x[4] + (s3 \div Limb)
    IN  <<s1 % Limb, s2 % Limb, s3 % Limb, s4 % Limb>>

\* bit i (0 .. 63) of x
Bit64(x, i) == (x[i \div 16 + 1] \div 2^(i % 16)) % 2

\* x < 0 as an int64
IsNeg64(x) == x[4] >= 32768

\* Unsigned 64-bit division, one quotient bit per step from bit i down:
\* [q, r] with n = q*d + r and r < d (d # 0)
RECURSIVE UDivMod64(_, _, _, _, _)
UDivMod64(n, d, i, q, r) ==
    IF i < 0 THEN [q |-> q, r |-> r]
    ELSE LET r1 == Shl1(r, Bit64(n, i))
         IN  IF Geq64(r1, d)
             THEN UDivMod64(n, d, i - 1,
                            [q EXCEPT ![i \div 16 + 1] = @ + 2^(i % 16)],
                            Sub64(r1, d))
             ELSE UDivMod64(n, d, i - 1, q, r1)

\* The highest bit set in x (0 for x = 0)
RECURSIVE TopBit16(_)
TopBit16(a) == IF a <= 1 THEN 0 ELSE 1 + TopBit16(a \div 2)

TopBit64(x) ==
    IF x[4] # 0 THEN 48 + TopBit16(x[4])
    ELSE IF x[3] # 0 THEN 32 + TopBit16(x[3])
    ELSE IF x[2] # 0 THEN 16 + TopBit16(x[2])
    ELSE TopBit16(x[1])

\* Go's int64(n) / d and int64(n) % d (d # 0): the quotient truncates toward
\* zero, the remainder has the sign of n, and MinInt64 / -1 wraps to MinInt64
SDivMod64(n, d) ==
    LET un == IF IsNeg64(n) THEN Neg64(n) ELSE n
        u == UDivMod64(un, IF IsNeg64(d) THEN Neg64(d) ELSE d,
                       TopBit64(un), Zero64, Zero64)
    IN  [q |-> IF IsNeg64(n) # IsNeg64(d) THEN Neg64(u.q) ELSE u.q,
         r |-> IF IsNeg64(n) THEN Neg64(u.r) ELSE u.r]

MinInt32 == -2147483647 - 1

\* int32(x): the low 32 bits of a 64-bit word as a signed integer
Int32(x) == (IF x[2] >= 32768 THEN x[2] - Limb ELSE x[2]) * Limb + x[1]

\* uint64(int64(v)) for an int32 v: sign extension to 64 bits
SignExtend32(v) ==
    LET s == IF v < 0 THEN 65535 ELSE 0
    IN  <<v % Limb, (v \div Limb) % Limb, s, s>>

\* uint64(uint32(x)): the low 32 bits, zero-extended
ZeroExtend32(x) == <<x[1], x[2], 0, 0>>

\* Go's a / b and a % b on int32 (b # 0): truncation toward zero, remainder
\* with the sign of a, MinInt32 / -1 wrapping to MinInt32
SDivMod32(a, b) ==
    LET pos(x, y) ==   \* y > 0
            IF x >= 0 \/ x % y = 0
            THEN [q |-> x \div y, r |-> x % y]
            ELSE [q |-> (x \div y) + 1, r |-> (x % y) - y]
    IN  IF b > 0 THEN pos(a, b)
        ELSE IF b = MinInt32
        THEN (IF a = MinInt32 THEN [q |-> 1, r |-> 0] ELSE [q |-> 0, r |-> a])
        ELSE IF a = MinInt32 /\ b = -1 THEN [q |-> a, r |-> 0]
        ELSE [q |-> 0 - pos(a, 0 - b).q, r |-> pos(a, 0 - b).r]

\* hwio:"offset=0x00,rwmask=0x3,wcb,rcb": the writable bits of DivCnt
DivCntRwMask == 3

NewHwDivisor ==
    [DivCnt |-> 0, Numer |-> Zero64, Denom |-> Zero64,
     Res |-> Zero64, Mod |-> Zero64]

\* The 32-bit division without the overflow case: MinInt32 / -1 goes
\* through the ordinary division and is sign-extended
calc32SignExtendedOverflow(d) ==
    LET numer == Int32(d.Numer)
        denom == Int32(d.Denom)
    IN  IF denom = 0
        THEN [d EXCEPT !.Mod = d.Numer,
                       !.Res = IF numer >= 0 THEN Word64(0, 15, 65535, 65535)
                               ELSE Not64(Word64(0, 15, 65535, 65535))]
        ELSE LET x == SDivMod32(numer, denom)
             IN  [d EXCEPT !.Res = SignExtend32(x.q), !.Mod = SignExtend32(x.r)]

\* calc(): the 32-bit division of mode 0
calc32(d) ==
    LET numer == Int32(d.Numer)
        denom == Int32(d.Denom)
    IN  IF denom = 0
        THEN [d EXCEPT !.Mod = d.Numer,
                       !.Res = IF numer >= 0 THEN Word64(0, 15, 65535, 65535)
                               ELSE Not64(Word64(0, 15, 65535, 65535))]
        ELSE IF denom = -1 /\ ZeroExtend32(d.Numer) = Word64(0, 0, 32768, 0)
        THEN [d EXCEPT !.Mod = Zero64, !.Res = ZeroExtend32(d.Numer)]
        ELSE LET x == SDivMod32(numer, denom)
             IN  [d EXCEPT !.Res = SignExtend32(x.q), !.Mod = SignExtend32(x.r)]

\* calc(): the 64-bit divisions of modes 1, 2 and 3
calc64(d, mode) ==
    LET denom == IF mode # 2 THEN SignExtend32(Int32(d.Denom)) ELSE d.Denom
    IN  IF Int32(denom) = 0
        THEN [d EXCEPT !.Mod = d.Numer,
                       !.Res = IF d.Numer # Zero64
                               THEN Word64(65535, 65535, 65535, 65535)
                               ELSE Word64(0, 0, 0, 1)]
        ELSE IF Int32(denom) = -1 /\ d.Numer = Word64(32768, 0, 0, 0)
        THEN [d EXCEPT !.Mod = Zero64, !.Res = d.Numer]
        ELSE LET x == SDivMod64(d.Numer, denom)
             IN  [d EXCEPT !.Res = x.q, !.Mod = x.r]

calc(d) ==
    LET mode == BitAnd(d.DivCnt, 3)
    IN  IF mode = 0 THEN calc32(d) ELSE calc64(d, mode)

\* A bus write to a register (hwio, not among the sources; from the
\* specification): read-only bits keep their value, the others take the
\* written one
RegWrite(old, val, rwmask) == BitOr(BitAndNot(old, rwmask), BitAnd(val, rwmask))

\* A bus write to DivCnt that does not recompute
WriteDIVCNTNoCalc(d, val) ==
    [d EXCEPT !.DivCnt = RegWrite(d.DivCnt, val, DivCntRwMask)]

\* A bus write to DivCnt, then its write callback WriteDIVCNT
WriteDIVCNT(d, val) ==
    calc([d EXCEPT !.DivCnt = RegWrite(d.DivCnt, val, DivCntRwMask)])

\* A bus write to Numer or Denom (all 64 bits writable), then the write
\* callback WriteIN
WriteIN(d, field, val) == calc([d EXCEPT ![field] = val])

\* ReadDIVCNT testing the low 32 bits of the denominator only
ReadDIVCNTLow32(d, val) ==
    IF ZeroExtend32(d.Denom) = Zero64 THEN BitOr(val, 2^14) ELSE val

\* ReadDIVCNT(val): the read callback of DivCnt, val being the register value
ReadDIVCNT(d, val) ==
    IF d.Denom = Zero64 THEN BitOr(val, 2^14) ELSE val

(***************************************************************************)
(*                  PACKAGE hwio: STRUCT TAGS, InitRegs                    *)
(*                                                                         *)
(* A Go string is the sequence of its characters, "0x3" being              *)
(* <<"0", "x", "3">>.  A struct tag is the sequence of its comma-separated *)
(* options; an option is <<key>> (no value) or <<key, value>>.             *)
(***************************************************************************)
EmptyString == <<>>

\* The default value of an option given without one
TrueString == <<"t", "r", "u", "e">>

\* hwiotag.Get(opt): the value of the first option named opt, "true" if it
\* has none, "" if the tag has no such option
RECURSIVE TagGet(_, _)
TagGet(t, opt) ==
    IF t = <<>> THEN EmptyString
    ELSE LET o == Head(t)
         IN  IF Len(o) = 1 /\ o[1] = opt THEN TrueString
             ELSE IF Len(o) = 2 /\ o[1] = opt THEN o[2]
             ELSE TagGet(Tail(t), opt)

\* The value of a character as a digit; 99 for a character that is none
DigitVal(ch) ==
    CASE ch = "0" -> 0 [] ch = "1" -> 1 [] ch = "2" -> 2 [] ch = "3" -> 3
      [] ch = "4" -> 4 [] ch = "5" -> 5 [] ch = "6" -> 6 [] ch = "7" -> 7
      [] ch = "8" -> 8 [] ch = "9" -> 9
      [] ch \in {"a", "A"} -> 10 [] ch \in {"b", "B"} -> 11
      [] ch \in {"c", "C"} -> 12 [] ch \in {"d", "D"} -> 13
      [] ch \in {"e", "E"} -> 14 [] ch \in {"f", "F"} -> 15
      [] OTHER -> 99

\* x * base + carry over the limbs of x, the carry out of the top limb
\* appended
RECURSIVE MulAddLimbs(_, _, _)
MulAddLimbs(x, base, carry) ==
    IF x = <<>> THEN <<carry>>
    ELSE LET t == (Head(x) * base) + carry
         IN  <<t % Limb>> \o MulAddLimbs(Tail(x), base, t \div Limb)

\* The digits of a literal accumulated into a uint64: "syntax" at a
\* character that is no digit of the base, "range" beyond 64 bits
RECURSIVE ParseDigits(_, _, _)
ParseDigits(digits, base, acc) ==
    IF digits = <<>> THEN [err |-> "nil", val |-> acc]
    ELSE IF DigitVal(Head(digits)) >= base
    THEN [err |-> "syntax", val |-> Zero64]
    ELSE LET r == MulAddLimbs(acc, base, DigitVal(Head(digits)))
         IN  IF r[5] # 0 THEN [err |-> "range", val |-> Zero64]
             ELSE ParseDigits(Tail(digits), base, SubSeq(r, 1, 4))

\* The low nbits bits of a uint64
TruncateBits(v, nbits) == [i \in 1 .. 4 |-> IF i * 16 <= nbits THEN v[i] ELSE 0]

\* strconv.ParseUint(str, 0, nbits): the base is taken from the prefix of the
\* literal ("0x" hexadecimal, "0" octal, decimal otherwise); the value must
\* fit in nbits bits
ParseUint(str, nbits) ==
    LET base == IF Len(str) >= 2 /\ str[1] = "0" /\ str[2] \in {"x", "X"}
                THEN 16
                ELSE IF Len(str) >= 2 /\ str[1] = "0" THEN 8 ELSE 10
        digits == IF base = 16 THEN SubSeq(str, 3, Len(str))
                  ELSE IF base = 8 THEN SubSeq(str, 2, Len(str)) ELSE str
        r == IF digits = <<>> THEN [err |-> "syntax", val |-> Zero64]
             ELSE ParseDigits(digits, base, Zero64)
    IN  IF r.err = "nil" /\ TruncateBits(r.val, nbits) # r.val
        THEN [err |-> "range", val |-> Zero64]
        ELSE r

LowerCase ==
    <<"a", "b", "c", "d", "e", "f", "g", "h", "i", "j", "k", "l", "m",
      "n", "o", "p", "q", "r", "s", "t", "u", "v", "w", "x", "y", "z">>

UpperCase ==
    <<"A", "B", "C", "D", "E", "F", "G", "H", "I", "J", "K", "L", "M",
      "N", "O", "P", "Q", "R", "S", "T", "U", "V", "W", "X", "Y", "Z">>

\* strings.ToUpper
ToUpper(str) ==
    [i \in 1 .. Len(str) |->
        IF \E k \in 1 .. 26 : LowerCase[k] = str[i]
        THEN UpperCase[CHOOSE k \in 1 .. 26 : LowerCase[k] = str[i]]
        ELSE str[i]]

\* The width of a register type, 0 for a type that is no register
RegBits(type) ==
    CASE type = "Reg16" -> 16 [] type = "Reg32" -> 32 [] type = "Reg64" -> 64
      [] OTHER -> 0

\* A register as the zero value of its struct leaves it (the register
\* types are not among the sources; their Value and RoMask fields have the
\* width of the register)
ZeroReg == [Value |-> Zero64, RoMask |-> Zero64, ReadCb |-> EmptyString,
            WriteCb |-> EmptyString]

\* The rcb/wcb part of InitRegs for one field: the callbacks are looked up
\* by name among the methods of the struct
InitCallbacks(f, reg, methods) ==
    LET rcb0 == TagGet(f.tag, "rcb")
        rcb == IF rcb0 = TrueString
               THEN <<"R", "e", "a", "d">> \o ToUpper(f.name) ELSE rcb0
        wcb0 == TagGet(f.tag, "wcb")
        wcb == IF wcb0 = TrueString
               THEN <<"W", "r", "i", "t", "e">> \o ToUpper(f.name) ELSE wcb0
    IN  IF rcb0 # EmptyString /\ rcb \notin methods
        THEN [err |-> "cannot find method", reg |-> reg]
        ELSE LET r1 == IF rcb0 # EmptyString
                       THEN [reg EXCEPT !.ReadCb = rcb] ELSE reg
             IN  IF wcb0 # EmptyString /\ wcb \notin methods
                 THEN [err |-> "cannot find method", reg |-> r1]
                 ELSE [err |-> "nil",
                       reg |-> IF wcb0 # EmptyString
                               THEN [r1 EXCEPT !.WriteCb = wcb] ELSE r1]

\* The body of InitRegs' loop storing rwmask itself as the read-only mask
InitFieldMaskNotComplemented(f, reg, methods) ==
    LET nbits == RegBits(f.type)
        rwmask == TagGet(f.tag, "rwmask")
        reset == TagGet(f.tag, "reset")
        m == ParseUint(rwmask, nbits)
        v == ParseUint(reset, nbits)
    IN  IF nbits = 0 THEN [err |-> "unsupported regtype", reg |-> reg]
        ELSE IF rwmask # EmptyString /\ m.err # "nil"
        THEN [err |-> "invalid rwmask", reg |-> reg]
        ELSE LET r1 == IF rwmask # EmptyString
                       THEN [reg EXCEPT !.RoMask = m.val]
                       ELSE reg
             IN  IF reset # EmptyString /\ v.err # "nil"
                 THEN [err |-> "invalid reset", reg |-> r1]
                 ELSE InitCallbacks(f,
                          IF reset # EmptyString
                          THEN [r1 EXCEPT !.Value = TruncateBits(v.val, nbits)]
                          ELSE r1,
                          methods)

\* The body of InitRegs' loop for one tagged field: the width of the type,
\* then rwmask, reset, rcb and wcb, returning at the first failure
InitField(f, reg, methods) ==
    LET nbits == RegBits(f.type)
        rwmask == TagGet(f.tag, "rwmask")
        reset == TagGet(f.tag, "reset")
        m == ParseUint(rwmask, nbits)
        v == ParseUint(reset, nbits)
    IN  IF nbits = 0 THEN [err |-> "unsupported regtype", reg |-> reg]
        ELSE IF rwmask # EmptyString /\ m.err # "nil"
        THEN [err |-> "invalid rwmask", reg |-> reg]
        ELSE LET r1 == IF rwmask # EmptyString
                       THEN [reg EXCEPT
                                !.RoMask = TruncateBits(Not64(m.val), nbits)]
                       ELSE reg
             IN  IF reset # EmptyString /\ v.err # "nil"
                 THEN [err |-> "invalid reset", reg |-> r1]
                 ELSE InitCallbacks(f,
                          IF reset # EmptyString
                          THEN [r1 EXCEPT !.Value = TruncateBits(v.val, nbits)]
                          ELSE r1,
                          methods)

\* InitRegs(data) from field i on: untagged fields are skipped, the first
\* failure is returned with the fields before it initialised
RECURSIVE InitRegsFrom(_, _)
InitRegsFrom(st, i) ==
    IF i > Len(st.fields) THEN [st EXCEPT !.ret = "nil"]
    ELSE IF st.fields[i].tag = <<>> THEN InitRegsFrom(st, i + 1)
    ELSE LET r == InitField(st.fields[i], st.data[i], st.methods)
             st1 == [st EXCEPT !.data[i] = r.reg]
         IN  IF r.err # "nil" THEN [st1 EXCEPT !.ret = r.err]
             ELSE InitRegsFrom(st1, i + 1)

InitRegs(st) == InitRegsFrom(st, 1)

\* A struct of registers as new() leaves it, InitRegs not yet called
NewRegs(fields, methods) ==
    [fields |-> fields, methods |-> methods,
     data |-> [i \in 1 .. Len(fields) |-> ZeroReg], ret |-> "not called"]

\* No struct at all: the value of regs where InitRegs plays no part
NoRegs == NewRegs(<<>>, {})

(***************************************************************************)
(*                     THE TOUCHSCREEN CONTROLLER                          *)
(*                                                                         *)
(* tsc holds the HwTouchScreen fields penX, penY, penDown; cal, the        *)
(* calibration values of the emulated RAM; closed, the state of the        *)
(* unbuffered channel BeginTransfer makes; tr, the frame of the transfer   *)
(* goroutine; caller, the position of the goroutine driving the exchange;  *)
(* sp, the SetPen call in progress (<<>> when there is none).              *)
(***************************************************************************)
\* Go's integer division, truncating toward zero (b > 0)
TruncDiv(a, b) == IF a >= 0 THEN a \div b ELSE 0 - ((0 - a) \div b)

Uint16(x) == x % 65536

Uint8(x) == x % 256

\* The frame of the transfer goroutine before the go statement has run
NoFrame == [pc |-> "none", cmd |-> 0, output |-> 0, bits8 |-> FALSE,
            val |-> 0, data |-> 0, fault |-> "none"]

\* NewHwTouchScreen(), over a RAM whose calibration values are cal
NewHwTouchScreen(cal) ==
    [penX |-> 0, penY |-> 0, penDown |-> FALSE, cal |-> cal,
     closed |-> FALSE, tr |-> NoFrame, caller |-> "none", sp |-> <<>>]

\* The emulated RAM before anything was stored in it
ZeroCal == [adcX1 |-> 0, scrX1 |-> 0, adcX2 |-> 0, scrX2 |-> 0,
            adcY1 |-> 0, scrY1 |-> 0, adcY2 |-> 0, scrY2 |-> 0]

\* The value of tsc where the touchscreen plays no part
NoTransfer == NewHwTouchScreen(ZeroCal)

\* BeginTransfer(): makes the channel and starts the transfer goroutine,
\* which blocks in the range loop of the idle scan
BeginTransfer(t) ==
    [t EXCEPT !.closed = FALSE, !.tr = [NoFrame EXCEPT !.pc = "scan"],
              !.caller = "ready"]

\* Where the goroutine blocks receiving from, and sending to, the channel
RecvPcs == {"scan", "recv1", "recv2", "drain"}

SendPcs == {"scanSend", "send1", "send2", "drainSend"}

\* The second reply repeating the first
SecondByteRepeatsFirst(tr) == tr.val

\* The second reply byte: uint8(output << 3), or uint8(output << 7) of the
\* reduced output
SecondByte(tr) ==
    IF tr.bits8 THEN Uint8(Uint16(tr.output * 128))
    ELSE Uint8(Uint16(tr.output * 8))

\* The goroutine's receive returning (data, ok)
TransferReceive(tr, data, ok) ==
    CASE tr.pc = "scan" ->
            IF ok THEN [tr EXCEPT !.cmd = data, !.val = 0, !.pc = "scanSend"]
            ELSE [tr EXCEPT !.pc = IF BitAnd(tr.cmd, 128) = 0
                                   THEN "done" ELSE "start"]
      [] tr.pc = "recv1" ->
            IF ok THEN [tr EXCEPT !.data = data, !.pc = "send1"]
            ELSE [tr EXCEPT !.val = SecondByte(tr), !.pc = "recv2"]
      [] tr.pc = "recv2" ->
            IF ok THEN [tr EXCEPT !.data = data, !.pc = "send2"]
            ELSE [tr EXCEPT !.cmd = 0, !.pc = "drain"]
      [] tr.pc = "drain" ->
            IF ok THEN [tr EXCEPT !.val = 0, !.pc = "drainSend"]
            ELSE [tr EXCEPT !.pc = "done"]

\* TransferSent going back to the idle scan after the second sample byte
TransferSentRescan(tr) ==
    CASE tr.pc = "scanSend" ->
            [tr EXCEPT !.pc = IF BitAnd(tr.cmd, 128) # 0
                              THEN "start" ELSE "scan"]
      [] tr.pc = "send1" ->
            [tr EXCEPT !.val = SecondByte(tr), !.pc = "recv2"]
      [] tr.pc = "send2" ->
            [tr EXCEPT !.cmd = tr.data,
                       !.pc = IF BitAnd(tr.data, 128) # 0
                              THEN "start" ELSE "scan"]
      [] tr.pc = "drainSend" -> [tr EXCEPT !.pc = "drain"]

\* The goroutine's send having been received by the caller
TransferSent(tr) ==
    CASE tr.pc = "scanSend" ->
            [tr EXCEPT !.pc = IF BitAnd(tr.cmd, 128) # 0
                              THEN "start" ELSE "scan"]
      [] tr.pc = "send1" ->
            [tr EXCEPT !.val = SecondByte(tr), !.pc = "recv2"]
      [] tr.pc = "send2" ->
            [tr EXCEPT !.cmd = tr.data,
                       !.pc = IF BitAnd(tr.data, 128) # 0
                              THEN "start" ELSE "drain"]
      [] tr.pc = "drainSend" -> [tr EXCEPT !.pc = "drain"]

\* The goroutine's send finding the channel closed: a run-time panic
TransferSendClosed(tr) ==
    [tr EXCEPT !.pc = "panic", !.fault = "send on closed channel"]

\* The interpolation without the ADC value of the first calibration point
CoordinateNoBase(pen, adc1, scr1, adc2, scr2) ==
    LET dadc == Uint16(adc2 - adc1)
        dscr == Uint8(scr2 - scr1)
    IN  IF dscr = 0 THEN [fault |-> "integer divide by zero", output |-> 0]
        ELSE [fault |-> "none",
              output |-> Uint16(TruncDiv((pen - scr1 + 1) * dadc, dscr))]

\* uint16((pen-int(scr1)+1)*int(adc2-adc1)/int(scr2-scr1) + int(adc1)): the
\* differences are taken in uint16 and uint8, the rest in int; the division
\* panics on a zero divisor
Coordinate(pen, adc1, scr1, adc2, scr2) ==
    LET dadc == Uint16(adc2 - adc1)
        dscr == Uint8(scr2 - scr1)
    IN  IF dscr = 0 THEN [fault |-> "integer divide by zero", output |-> 0]
        ELSE [fault |-> "none",
              output |->
                  Uint16(TruncDiv((pen - scr1 + 1) * dadc, dscr) + adc1)]

\* The conversion done, its first reply byte is the argument of the first
\* recv call: uint8(output >> 5), or output >>= 4 and uint8(output >> 1)
Framed(tr, output) ==
    IF tr.bits8
    THEN [tr EXCEPT !.output = output \div 16,
                    !.val = Uint8((output \div 16) \div 2), !.pc = "recv1"]
    ELSE [tr EXCEPT !.output = output,
                    !.val = Uint8(output \div 32), !.pc = "recv1"]

\* From the label start to the read of penDown: the channel of the command
\* and its output where no coordinate is needed (pc "recv1"), or the
\* coordinate to convert next.  An unimplemented channel leaves output as
\* declared, 0.
StartOutput(t) ==
    LET adchan == (t.tr.cmd \div 16) % 8
    IN  CASE adchan = 0 -> [pc |-> "recv1", output |-> 2048]
          [] adchan = 1 -> IF t.penDown THEN [pc |-> "coordY", output |-> 0]
                           ELSE [pc |-> "recv1", output |-> 4095]
          [] adchan = 5 -> IF t.penDown THEN [pc |-> "coordX", output |-> 0]
                           ELSE [pc |-> "recv1", output |-> 0]
          [] OTHER -> [pc |-> "recv1", output |-> 0]

\* The step of the goroutine from the label start
TransferStart(t) ==
    LET tr == [t.tr EXCEPT !.bits8 = (t.tr.cmd \div 8) % 2 # 0, !.output = 0]
        o == StartOutput(t)
    IN  [t EXCEPT !.tr = IF o.pc = "recv1" THEN Framed(tr, o.output)
                         ELSE [tr EXCEPT !.pc = o.pc]]

\* The conversion of a coordinate, the pen having been found down: the
\* calibration values and the coordinate are read and interpolated
CoordOutput(t) ==
    LET c == t.cal
    IN  IF t.tr.pc = "coordY"
        THEN Coordinate(t.penY, c.adcY1, c.scrY1, c.adcY2, c.scrY2)
        ELSE Coordinate(t.penX, c.adcX1, c.scrX1, c.adcX2, c.scrX2)

\* The step of the goroutine converting a coordinate
TransferCoord(t) ==
    LET r == CoordOutput(t)
    IN  [t EXCEPT !.tr =
            IF r.fault # "none"
            THEN [t.tr EXCEPT !.pc = "panic", !.fault = r.fault]
            ELSE Framed(t.tr, r.output)]

\* SetPen(down, x, y) is three assignments, made in this order by the
\* goroutine of the input source while the transfer goroutine runs
SetPenX(t, down, x, y) ==
    [t EXCEPT !.penX = x,
              !.sp = <<[at |-> "penY", down |-> down, x |-> x, y |-> y]>>]

SetPenY(t) == [t EXCEPT !.penY = t.sp[1].y, !.sp[1].at = "penDown"]

SetPenDown(t) == [t EXCEPT !.penDown = t.sp[1].down, !.sp = <<>>]

\* The whole of SetPen with no step of another goroutine in between
SetPen(t, down, x, y) == SetPenDown(SetPenY(SetPenX(t, down, x, y)))

(***************************************************************************)
(* The tight execution loop of the core (Cpu.Run, not among the sources)   *)
(* is the reader of tightExit; modelled from the specification, it takes   *)
(* note of the flag and lowers it before it runs on.                       *)
(***************************************************************************)
RunTightLoop(c) == [c EXCEPT !.tightExit = FALSE]

(***************************************************************************)
(* Bounds of the CPU model.                                                *)
(***************************************************************************)
\* No dispatch is started that would take the clock beyond MaxClock
MaxClock == 7

\* Program counters at dispatch: 0x02000100, and 0xFFFFFFFE, from which
\* every non-zero offset wraps around 2^32
PcValues == {Reg32(512, 256), Reg32(65535, 65534)}

\* Condition flags (N, Z, C, V as a nibble) at dispatch
NzcvValues == {0, 10}

\* Halfwords the bus returns for the trapping SWI instruction: Thumb SWI 6,
\* the high half of ARM SWI 0xFF0000, Thumb SWI 11
SwiInsns == {57094, 61439, 57099}

\* The SetSwiHle calls made: <<call number, hook or Nil>>, a hook being the
\* tuple of the cycle count it returns
HleInstalls == {<<6, <<1>>>>, <<6, Nil>>, <<255, <<2>>>>, <<255, Nil>>}

\* The states a core can be in when an exception or a line change arrives:
\* NewCpu followed by the executor's status register and PC updates.
InitCpus ==
    {SetPC(CpsrSetF(CpsrSetI(CpsrSetT(
         CpsrSetMode([NewCpu EXCEPT !.Cpsr.nzcv = n], m), t), i), f), a) :
        <<m, t, i, f, a, n>> \in
            CpuModes \X BOOLEAN \X BOOLEAN \X BOOLEAN \X PcValues \X NzcvValues}

NoEvent == [op |-> "none"]

InitCpu ==
    /\ cpu \in InitCpus
    /\ div = NewHwDivisor
    /\ regs = NoRegs
    /\ tsc = NoTransfer
    /\ ev = NoEvent

ExceptionStep(exc, insn) ==
    LET r == Exception(cpu, exc, insn)
    IN  /\ r.cpu.Clock <= MaxClock
        /\ cpu' = r.cpu
        /\ ev' = [op |-> "Exception", exc |-> exc, insn |-> insn,
                  hle |-> r.hle, pre |-> cpu]
        /\ UNCHANGED <<div, regs, tsc>>

SetSwiHleStep(swi, hle) ==
    /\ cpu' = SetSwiHle(cpu, swi, hle)
    /\ ev' = [op |-> "SetSwiHle"]
    /\ UNCHANGED <<div, regs, tsc>>

SetLineStep(line, val) ==
    /\ cpu' = SetLine(cpu, line, val)
    /\ ev' = [op |-> "SetLine", line |-> line, val |-> val, pre |-> cpu]
    /\ UNCHANGED <<div, regs, tsc>>

RunTightLoopStep ==
    /\ cpu' = RunTightLoop(cpu)
    /\ ev' = [op |-> "RunTightLoop"]
    /\ UNCHANGED <<div, regs, tsc>>

NextCpu ==
    \/ \E exc \in Exceptions :
         \E insn \in (IF exc = ExceptionSwi THEN SwiInsns ELSE {0}) :
            ExceptionStep(exc, insn)
    \/ \E h \in HleInstalls : SetSwiHleStep(h[1], h[2])

SpecCpu == InitCpu /\ [][NextCpu]_vars

NextLines ==
    \/ \E line \in Lines : \E val \in BOOLEAN : SetLineStep(line, val)
    \/ RunTightLoopStep

SpecLines == InitCpu /\ [][NextLines]_vars

(***************************************************************************)
(*                     CLAIMS ABOUT THE ARM CORE                           *)
(***************************************************************************)
\* The fixed target mode of each exception kind, as the specification
\* lists it
TargetMode(exc) ==
    CASE exc \in {ExceptionReset, ExceptionSwi, ExceptionAddressOverflow}
            -> CpuModeSupervisor
      [] exc = ExceptionUndefined -> CpuModeUndefined
      [] exc \in {ExceptionPrefetchAbort, ExceptionDataAbort} -> CpuModeAbort
      [] exc = ExceptionIrq -> CpuModeIrq
      [] exc = ExceptionFiq -> CpuModeFiq

\* The saved-status register of each privileged mode, as a slot of SpsrBank
SpsrSlot(mode) ==
    CASE mode = CpuModeFiq -> 1
      [] mode = CpuModeSupervisor -> 2
      [] mode = CpuModeAbort -> 3
      [] mode = CpuModeIrq -> 4
      [] mode = CpuModeUndefined -> 5

\* The last call was an Exception that took the full exception sequence
RealException == ev.op = "Exception" /\ ev.hle = <<>>

\* C1: after an Exception not served by an HLE hook, the saved-status
\* register of the target mode holds the CPSR of just before the dispatch,
\* and the saved-status register of every other mode is unchanged.
C1_SpsrInTargetBank ==
    RealException =>
        LET slot == SpsrSlot(TargetMode(ev.exc))
        IN  /\ cpu.SpsrBank[slot] = CpsrUint32(ev.pre.Cpsr)
            /\ \A i \in 1 .. 5 :
                   i # slot => cpu.SpsrBank[i] = ev.pre.SpsrBank[i]

\* An IRQ taken in Supervisor mode, whose own saved status is in use: the
\* old CPSR is in the IRQ slot, the Supervisor slot is as it was.
C1_Witness ==
    /\ RealException
    /\ ev.exc = ExceptionIrq
    /\ ev.pre.Cpsr.mode = CpuModeSupervisor
    /\ ev.pre.Cpsr.nzcv # 0
    /\ ev.pre.SpsrBank[2] # Zero32
    /\ cpu.SpsrBank[4] = CpsrUint32(ev.pre.Cpsr)
    /\ cpu.SpsrBank[4] # ev.pre.SpsrBank[4]
    /\ cpu.SpsrBank[2] = ev.pre.SpsrBank[2]

\* C2: after an Exception not served by an HLE hook the CPSR has the target
\* mode of the kind, T clear, I set, and F set for Reset and Fiq and as
\* before the dispatch for every other kind.
C2_CpsrAfterException ==
    RealException =>
        /\ cpu.Cpsr.mode = TargetMode(ev.exc)
        /\ cpu.Cpsr.T = FALSE
        /\ cpu.Cpsr.I = TRUE
        /\ cpu.Cpsr.F = (IF ev.exc \in {ExceptionReset, ExceptionFiq}
                         THEN TRUE ELSE ev.pre.Cpsr.F)

\* A FIQ taken in Thumb state with both masks clear
C2_Witness ==
    /\ RealException
    /\ ev.exc = ExceptionFiq
    /\ ev.pre.Cpsr.T /\ ~ev.pre.Cpsr.I /\ ~ev.pre.Cpsr.F
    /\ ev.pre.Cpsr.mode = CpuModeUser
    /\ cpu.Cpsr.mode = CpuModeFiq
    /\ ~cpu.Cpsr.T /\ cpu.Cpsr.I /\ cpu.Cpsr.F

\* C3: after an Exception not served by an HLE hook, R14 of the target mode
\* is the PC of before the dispatch plus the offset of the kind, from the
\* ARM table if T was clear and from the Thumb table if it was set; for Irq
\* it is pc+4 in both widths.
C3_LinkRegister ==
    RealException =>
        /\ cpu.Cpsr.mode = TargetMode(ev.exc)
        /\ cpu.Regs[14] =
               Add32(ev.pre.pc, IF ev.pre.Cpsr.T
                                THEN excPcOffsetThumb[ev.exc + 1]
                                ELSE excPcOffsetArm[ev.exc + 1])
        /\ ev.exc = ExceptionIrq => cpu.Regs[14] = Add32(ev.pre.pc, 4)

\* An undefined instruction in Thumb state at 0x02000100: LR = 0x02000102
C3_Witness ==
    /\ RealException
    /\ ev.exc = ExceptionUndefined
    /\ ev.pre.Cpsr.T
    /\ ev.pre.pc = Reg32(512, 256)
    /\ cpu.Regs[14] = Reg32(512, 258)
    /\ cpu.Cpsr.mode = CpuModeUndefined

\* C4: a SWI whose call number (the low 8 bits of the trapping halfword) has
\* a hook runs that hook once, adds the hook's cycles plus 3 to the clock and
\* changes nothing else of the core; without a hook for the number the full
\* exception sequence runs.
C4_SwiHle ==
    (ev.op = "Exception" /\ ev.exc = ExceptionSwi) =>
        LET num == ev.insn % 256
            hook == ev.pre.swiHle[num]
        IN  IF hook # Nil
            THEN /\ ev.hle = <<num>>
                 /\ cpu.Clock = ev.pre.Clock + hook[1] + 3
                 /\ cpu = [ev.pre EXCEPT !.Clock = cpu.Clock]
            ELSE /\ ev.hle = <<>>
                 /\ cpu.Cpsr.mode = CpuModeSupervisor
                 /\ cpu.SpsrBank[2] = CpsrUint32(ev.pre.Cpsr)
                 /\ cpu.Regs[14] = ev.pre.pc
                 /\ cpu.pc = Reg32(0, 8)
                 /\ cpu.Clock = ev.pre.Clock + 3

\* SWI 0xFF with a hook returning 2 cycles, trapping in User mode, Thumb
C4_Witness ==
    /\ ev.op = "Exception" /\ ev.exc = ExceptionSwi
    /\ ev.insn = 61439
    /\ ev.pre.swiHle[255] = <<2>>
    /\ ev.pre.swiHle[6] = <<1>>
    /\ ev.hle = <<255>>
    /\ ev.pre.Cpsr.mode = CpuModeUser /\ ev.pre.Cpsr.T
    /\ cpu.Cpsr = ev.pre.Cpsr
    /\ cpu.Clock = ev.pre.Clock + 5

\* Whether a line is asserted in a line state
Asserted(lines, line) == (lines \div line) % 2 = 1

\* C5: SetLine(Irq, true) and SetLine(Fiq, true) leave Halt deasserted and
\* the named line asserted, and the other interrupt line as it was, whatever
\* the line state and the I and F masks of the CPSR were.
C5_InterruptWakes ==
    (ev.op = "SetLine" /\ ev.val /\ ev.line \in {LineIrq, LineFiq}) =>
        /\ ~Asserted(cpu.lines, LineHalt)
        /\ Asserted(cpu.lines, ev.line)
        /\ \A l \in {LineIrq, LineFiq} \ {ev.line} :
               Asserted(cpu.lines, l) = Asserted(ev.pre.lines, l)
        /\ cpu.Cpsr = ev.pre.Cpsr

\* IRQ asserted on a halted core with both masks set
C5_Witness ==
    /\ ev.op = "SetLine" /\ ev.val /\ ev.line = LineIrq
    /\ Asserted(ev.pre.lines, LineHalt)
    /\ ev.pre.Cpsr.I /\ ev.pre.Cpsr.F
    /\ cpu.lines = LineIrq

\* C6: SetLine(line, true) sets tightExit when, and only when, the line was
\* not asserted before (re-asserting an asserted line leaves the flag as it
\* was, whatever other lines are asserted); SetLine(line, false) never
\* changes the flag.
C6_TightExitOnNewLineOnly ==
    ev.op = "SetLine" =>
        cpu.tightExit =
            (IF ev.val /\ ~Asserted(ev.pre.lines, ev.line)
             THEN TRUE ELSE ev.pre.tightExit)

\* Halt is asserted together with the Irq or the Fiq line
HaltWithInterrupt ==
    /\ Asserted(cpu.lines, LineHalt)
    /\ Asserted(cpu.lines, LineIrq) \/ Asserted(cpu.lines, LineFiq)

\* C21 as stated: in every line state reachable by SetLine calls, Halt is
\* never asserted together with Irq or Fiq, also when Halt is asserted
\* after the interrupt line.
C21_HaltNeverWithInterrupt == ~HaltWithInterrupt

\* C21, amended: Halt comes to be asserted together with Irq or Fiq only by
\* a SetLine(Halt, true) call made while the interrupt line is asserted;
\* no line state starts that way and no other call leads there, so an
\* interrupt line asserted after Halt always finds the core not halted.
C21_HaltWithInterruptOnlyByHalt ==
    /\ ~HaltWithInterrupt
    /\ [][(~HaltWithInterrupt /\ HaltWithInterrupt') =>
              /\ ev'.op = "SetLine" /\ ev'.line = LineHalt /\ ev'.val
              /\ Asserted(cpu.lines, LineIrq) \/ Asserted(cpu.lines, LineFiq)]_vars

\* SetLine(Halt, true) called while Fiq alone is asserted: both lines are
\* asserted afterwards
C21_Witness ==
    /\ ev.op = "SetLine" /\ ev.line = LineHalt /\ ev.val
    /\ ev.pre.lines = LineFiq
    /\ cpu.lines = LineFiq + LineHalt

(***************************************************************************)
(* The divisor on the bus.                                                 *)
(***************************************************************************)
\* Values written to DivCnt: the four modes, and two values with read-only
\* bits set (0x4001, 0xFFFE)
DivCntWrites == {0, 1, 2, 3, 16385, 65534}

\* Values written to Numer and Denom: 0, 10, 3, -5, 0x80000000, MinInt64,
\* -1, 0xFFFFFFFF, 0x100000000, 0x100000007
Words64 ==
    {Zero64, Word64(0, 0, 0, 10), Word64(0, 0, 0, 3),
     Word64(65535, 65535, 65535, 65531), Word64(0, 0, 32768, 0),
     Word64(32768, 0, 0, 0), Word64(65535, 65535, 65535, 65535),
     Word64(0, 0, 65535, 65535), Word64(0, 1, 0, 0), Word64(0, 1, 0, 7)}

InitDiv ==
    /\ cpu = NewCpu
    /\ div = NewHwDivisor
    /\ regs = NoRegs
    /\ tsc = NoTransfer
    /\ ev = [op |-> "none", written |-> FALSE]

WriteDivCntStep(val) ==
    /\ div' = WriteDIVCNT(div, val)
    /\ ev' = [op |-> "WriteDIVCNT", val |-> val, written |-> TRUE]
    /\ UNCHANGED <<cpu, regs, tsc>>

WriteNumerStep(val) ==
    /\ div' = WriteIN(div, "Numer", val)
    /\ ev' = [op |-> "WriteNumer", val |-> val, written |-> TRUE]
    /\ UNCHANGED <<cpu, regs, tsc>>

WriteDenomStep(val) ==
    /\ div' = WriteIN(div, "Denom", val)
    /\ ev' = [op |-> "WriteDenom", val |-> val, written |-> TRUE]
    /\ UNCHANGED <<cpu, regs, tsc>>

ReadDivCntStep ==
    /\ ev' = [op |-> "ReadDIVCNT", ret |-> ReadDIVCNT(div, div.DivCnt),
              pre |-> div, written |-> ev.written]
    /\ UNCHANGED <<cpu, div, regs, tsc>>

NextDiv ==
    \/ \E val \in DivCntWrites : WriteDivCntStep(val)
    \/ \E val \in Words64 : WriteNumerStep(val)
    \/ \E val \in Words64 : WriteDenomStep(val)
    \/ ReadDivCntStep

SpecDiv == InitDiv /\ [][NextDiv]_vars

(***************************************************************************)
(*                      CLAIMS ABOUT THE DIVISOR                           *)
(***************************************************************************)
\* The two mode bits of the control register
DivMode == div.DivCnt % 4

AllOnes64 == Word64(65535, 65535, 65535, 65535)

\* x is the sign extension to 64 bits of its low 32 bits
IsSignExtended32(x) ==
    /\ x[3] = x[4]
    /\ x[3] = (IF x[2] >= 32768 THEN 65535 ELSE 0)

\* q and r are the truncating quotient and remainder of n by d (d # 0):
\* n = q*d + r, |r| < |d|, and r is zero or has the sign of n
IsTruncatedDivision(n, d, q, r) ==
    /\ r # MinInt32
    /\ IF d > 0 THEN r < d /\ 0 - r < d ELSE d < r /\ d < 0 - r
    /\ r = 0 \/ (r > 0) = (n > 0)
    /\ n - r = q * d

\* C7: in mode 0, after a recomputation: a zero 32-bit denominator gives
\* Mod = numerator and Res = 0xFFFFFFFFF for a 32-bit numerator >= 0, else
\* its complement; -1 under 0x80000000 gives Mod = 0 and Res = 0x80000000
\* zero-extended; everything else gives the truncating 32-bit quotient and
\* remainder, sign-extended to 64 bits.
C7_Division32 ==
    (ev.written /\ DivMode = 0) =>
        LET n == Int32(div.Numer)
            d == Int32(div.Denom)
        IN  IF d = 0
            THEN /\ div.Mod = div.Numer
                 /\ div.Res = (IF n >= 0 THEN Word64(0, 15, 65535, 65535)
                               ELSE Word64(65535, 65520, 0, 0))
            ELSE IF d = -1 /\ n = MinInt32
            THEN /\ div.Mod = Zero64
                 /\ div.Res = Word64(0, 0, 32768, 0)
            ELSE /\ IsSignExtended32(div.Res)
                 /\ IsSignExtended32(div.Mod)
                 /\ IsTruncatedDivision(n, d, Int32(div.Res), Int32(div.Mod))

\* 10 / 3 in mode 0: Res = 3, Mod = 1
C7_Witness ==
    /\ ev.written /\ DivMode = 0
    /\ div.Numer = Word64(0, 0, 0, 10)
    /\ div.Denom = Word64(0, 0, 0, 3)
    /\ div.Res = Word64(0, 0, 0, 3)
    /\ div.Mod = Word64(0, 0, 0, 1)

\* The divisor of modes 1, 2 and 3 is zero: the whole denominator in mode 2,
\* its low 32 bits in modes 1 and 3
EffectiveDenomZero ==
    IF DivMode = 2 THEN div.Denom = Zero64 ELSE ZeroExtend32(div.Denom) = Zero64

\* C8: in modes 1, 2 and 3 a zero effective denominator gives Mod =
\* numerator, and Res = -1 if the numerator is > 0 as a signed 64-bit value
\* and Res = 1 otherwise (numerator zero or negative).
C8_DivisionByZero64 ==
    (ev.written /\ DivMode # 0 /\ EffectiveDenomZero) =>
        /\ div.Mod = div.Numer
        /\ div.Res = (IF div.Numer # Zero64 /\ div.Numer[4] < 32768
                      THEN AllOnes64 ELSE Word64(0, 0, 0, 1))

\* C9: a read of the control register reports bit 14 exactly when the whole
\* 64-bit denominator is zero, in every mode, passes the other bits of the
\* register on, and changes no register.
C9_DivByZeroFlag ==
    ev.op = "ReadDIVCNT" =>
        /\ ((ev.ret \div 2^14) % 2 = 1) = (div.Denom = Zero64)
        /\ ev.ret % 2^14 = div.DivCnt
        /\ div = ev.pre

\* A read in mode 0 with denominator 0x100000000, whose low half is zero
C9_Witness ==
    /\ ev.op = "ReadDIVCNT"
    /\ DivMode = 0
    /\ div.Denom = Word64(0, 1, 0, 0)
    /\ div.Res = Word64(0, 15, 65535, 65535)
    /\ ev.ret = 0

\* Res and Mod are what a recomputation yields from the current inputs
ResModRecomputed ==
    /\ div.Res = calc(div).Res
    /\ div.Mod = calc(div).Mod

\* C10 as stated: in every state reachable by writes to the control,
\* numerator and denominator registers (none included), Res and Mod are the
\* values recomputation produces from the current mode, numerator and
\* denominator.
C10_ResModPureAlways == ResModRecomputed

\* C10, amended: the same once at least one of the three registers has been
\* written.
C10_ResModPureOnceWritten == ev.written => ResModRecomputed

\* A mode change alone (0 to 1, over 10 / 0) has replaced the results
C10_Witness ==
    /\ ev.op = "WriteDIVCNT"
    /\ DivMode = 1
    /\ div.Numer = Word64(0, 0, 0, 10)
    /\ div.Denom = Zero64
    /\ div.Res = AllOnes64
    /\ div.Mod = div.Numer

\* x + y modulo 2^64
Add64(x, y) == Sub64(x, Neg64(y))

\* |x| as an unsigned 64-bit word (2^63 for the minimum value)
Abs64(x) == IF IsNeg64(x) THEN Neg64(x) ELSE x

\* The product of two limbs as a word: a*b = (a % 256)*b + (a \div 256)*b*256
MulLimb(a, b) ==
    LET p1 == (a % 256) * b
        p2 == (a \div 256) * b
        low == p1 + (p2 % 256) * 256
    IN  <<low % Limb, (p2 \div 256) + (low \div Limb)>>

\* x[i] * y[j] * 2^(16 * (i + j - 2)) modulo 2^64
PartialProduct(x, y, i, j) ==
    LET p == MulLimb(x[i], y[j])
        k == i + j - 1
    IN  [n \in 1 .. 4 |-> IF n = k THEN p[1] ELSE IF n = k + 1 THEN p[2] ELSE 0]

\* x * y modulo 2^64
Mul64(x, y) ==
    LET row(i) ==
            IF i = 1 THEN Add64(Add64(PartialProduct(x, y, 1, 1),
                                      PartialProduct(x, y, 1, 2)),
                                Add64(PartialProduct(x, y, 1, 3),
                                      PartialProduct(x, y, 1, 4)))
            ELSE IF i = 2 THEN Add64(Add64(PartialProduct(x, y, 2, 1),
                                           PartialProduct(x, y, 2, 2)),
                                     PartialProduct(x, y, 2, 3))
            ELSE IF i = 3 THEN Add64(PartialProduct(x, y, 3, 1),
                                     PartialProduct(x, y, 3, 2))
            ELSE PartialProduct(x, y, 4, 1)
    IN  Add64(Add64(row(1), row(2)), Add64(row(3), row(4)))

\* q and r are the signed truncating 64-bit quotient and remainder of n by
\* d (d # 0, not MinInt64 / -1): n = q*d + r, |r| < |d|, r is zero or has
\* the sign of n, and q is zero or has the sign n and d give it
IsTruncatedDivision64(n, d, q, r) ==
    /\ Add64(Mul64(q, d), r) = n
    /\ Abs64(r) # Abs64(d) /\ Geq64(Abs64(d), Abs64(r))
    /\ r = Zero64 \/ IsNeg64(r) = IsNeg64(n)
    /\ q = Zero64 \/ IsNeg64(q) = (IsNeg64(n) # IsNeg64(d))

\* C20: in mode 2, after a recomputation, the divisor is the whole 64-bit
\* denominator: -1 under the minimum signed 64-bit numerator gives Mod = 0
\* and Res = numerator, and every other non-zero denominator, a zero or
\* 0xFFFFFFFF low half included, gives the signed truncating 64-bit
\* quotient and remainder, never the division-by-zero or overflow outcome.
C20_Division64FullDenominator ==
    (ev.written /\ DivMode = 2 /\ div.Denom # Zero64) =>
        IF div.Denom = AllOnes64 /\ div.Numer = Word64(32768, 0, 0, 0)
        THEN div.Mod = Zero64 /\ div.Res = div.Numer
        ELSE IsTruncatedDivision64(div.Numer, div.Denom, div.Res, div.Mod)

(***************************************************************************)
(* InitRegs called on a struct.                                            *)
(***************************************************************************)
\* The reset and rwmask literals tried: 0x3, 0xAABB, 0177777 (octal, 0xFFFF),
\* 65536 (decimal, 0x10000), 0xFFFFFFFF, 0x100000000, 0xFFFFFFFFFFFFFFFF,
\* 0x10000000000000000, and "" for an option that is absent
Literals ==
    {EmptyString,
     <<"0", "x", "3">>,
     <<"0", "x", "A", "A", "B", "B">>,
     <<"0", "1", "7", "7", "7", "7", "7">>,
     <<"6", "5", "5", "3", "6">>,
     <<"0", "x", "F", "F", "F", "F", "F", "F", "F", "F">>,
     <<"0", "x", "1", "0", "0", "0", "0", "0", "0", "0", "0">>,
     <<"0", "x", "F", "F", "F", "F", "F", "F", "F", "F",
                 "F", "F", "F", "F", "F", "F", "F", "F">>,
     <<"0", "x", "1", "0", "0", "0", "0", "0", "0", "0", "0",
                 "0", "0", "0", "0", "0", "0", "0", "0">>}

\* The callbacks a field asks for: none, the write callback under its
\* default name, a read callback the struct has no method for
CallbackOptions == {<<>>, <<<<"wcb">>>>, <<<<"rcb", <<"N", "o">>>>>>}

\* The tag of a field: offset, then the options chosen
FieldTag(reset, rwmask, cbs) ==
    <<<<"offset", <<"0", "x", "1", "0">>>>>>
        \o (IF rwmask = EmptyString THEN <<>> ELSE <<<<"rwmask", rwmask>>>>)
        \o cbs
        \o (IF reset = EmptyString THEN <<>> ELSE <<<<"reset", reset>>>>)

\* A struct of three fields: an untagged one, a tagged 16-bit register, the
\* register under test; its methods are WriteIN and WriteDATA
StructUnderInit(type, reset, rwmask, cbs) ==
    NewRegs(<<[name |-> <<"b", "u", "s">>, type |-> "Bus", tag |-> <<>>],
              [name |-> <<"c", "n", "t">>, type |-> "Reg16",
               tag |-> <<<<"offset", <<"0">>>>, <<"wcb", <<"W", "r", "i", "t", "e", "I", "N">>>>>>],
              [name |-> <<"d", "a", "t", "a">>, type |-> type,
               tag |-> FieldTag(reset, rwmask, cbs)]>>,
            {<<"W", "r", "i", "t", "e", "I", "N">>,
             <<"W", "r", "i", "t", "e", "D", "A", "T", "A">>})

InitStruct ==
    /\ cpu = NewCpu
    /\ div = NewHwDivisor
    /\ tsc = NoTransfer
    /\ \E type \in {"Reg16", "Reg32", "Reg64"} :
         \E reset \in Literals : \E rwmask \in Literals :
           \E cbs \in CallbackOptions :
              /\ regs = StructUnderInit(type, reset, rwmask, cbs)
              /\ ev = [op |-> "none", type |-> type, reset |-> reset,
                       rwmask |-> rwmask, cbs |-> cbs]

InitRegsStep ==
    /\ regs.ret = "not called"
    /\ regs' = InitRegs(regs)
    /\ ev' = [ev EXCEPT !.op = "InitRegs"]
    /\ UNCHANGED <<cpu, div, tsc>>

NextRegs == InitRegsStep

SpecRegs == InitStruct /\ [][NextRegs]_vars

(***************************************************************************)
(*                        CLAIMS ABOUT InitRegs                            *)
(***************************************************************************)
\* The number a literal denotes and the bits it takes to hold it
LiteralValue(lit) ==
    CASE lit = <<"0", "x", "3">> -> [val |-> Word64(0, 0, 0, 3), bits |-> 2]
      [] lit = <<"0", "x", "A", "A", "B", "B">> ->
            [val |-> Word64(0, 0, 0, 43707), bits |-> 16]
      [] lit = <<"0", "1", "7", "7", "7", "7", "7">> ->
            [val |-> Word64(0, 0, 0, 65535), bits |-> 16]
      [] lit = <<"6", "5", "5", "3", "6">> ->
            [val |-> Word64(0, 0, 1, 0), bits |-> 17]
      [] Len(lit) = 10 -> [val |-> Word64(0, 0, 65535, 65535), bits |-> 32]
      [] Len(lit) = 11 -> [val |-> Word64(0, 1, 0, 0), bits |-> 33]
      [] Len(lit) = 18 ->
            [val |-> Word64(65535, 65535, 65535, 65535), bits |-> 64]
      [] Len(lit) = 19 -> [val |-> Zero64, bits |-> 65]

\* The width of the register under test
WidthUnderInit ==
    CASE ev.type = "Reg16" -> 16 [] ev.type = "Reg32" -> 32
      [] ev.type = "Reg64" -> 64

\* The complement of a value within w bits
ComplementWithin(v, w) ==
    [i \in 1 .. 4 |-> IF i * 16 <= w THEN 65535 - v[i] ELSE 0]

\* C11: after InitRegs, a register of width w whose reset and rwmask
\* literals fit in w bits has the reset literal as its value (0 if reset is
\* absent) and the complement of rwmask within w bits as its read-only mask
\* (0 if rwmask is absent); a literal that does not fit in w bits makes
\* InitRegs return a failure.
C11_InitRegsResetAndMask ==
    ev.op = "InitRegs" =>
        LET w == WidthUnderInit
            given == {l \in {ev.reset, ev.rwmask} : l # EmptyString}
            reg == regs.data[3]
        IN  IF \E l \in given : LiteralValue(l).bits > w
            THEN regs.ret \notin {"nil", "not called"}
            ELSE /\ reg.Value = (IF ev.reset = EmptyString THEN Zero64
                                 ELSE LiteralValue(ev.reset).val)
                 /\ reg.RoMask =
                        (IF ev.rwmask = EmptyString THEN Zero64
                         ELSE ComplementWithin(LiteralValue(ev.rwmask).val, w))
                 /\ (ev.cbs # <<<<"rcb", <<"N", "o">>>>>>) => regs.ret = "nil"

\* A 32-bit register with reset=0xFFFFFFFF and rwmask=0xAABB: the reset
\* value has bits outside the mask, the read-only mask is 0xFFFF5544
C11_Witness ==
    /\ ev.op = "InitRegs"
    /\ ev.type = "Reg32"
    /\ ev.rwmask = <<"0", "x", "A", "A", "B", "B">>
    /\ Len(ev.reset) = 10
    /\ regs.ret = "nil"
    /\ regs.data[3].Value = Word64(0, 0, 65535, 65535)
    /\ regs.data[3].RoMask = Word64(0, 0, 65535, 21828)
    /\ regs.data[2].WriteCb = <<"W", "r", "i", "t", "e", "I", "N">>

(***************************************************************************)
(* A transfer of the touchscreen controller driven over its channel.       *)
(*                                                                         *)
(* The caller offers a byte (ch <- b) and takes the reply (<-ch), or       *)
(* closes the channel.  The channel is unbuffered: a byte passes when the  *)
(* sender and the receiver are both at the channel, in one step.  ev       *)
(* keeps the bytes offered (sent), the replies taken (got), one record for *)
(* each conversion made (samples: the command, the 12-bit output, the pen  *)
(* values read for it), the pen states ever set (pens) and the number of   *)
(* SetPen calls (nset).                                                    *)
(***************************************************************************)
\* The caller offers no more than MaxBytes bytes
MaxBytes == 5

\* The input source calls SetPen no more than MaxSetPen times
MaxSetPen == 2

\* Bytes offered: 0x00; 0x80, channel 0; 0x90, channel 1 (Y), 12 bits; 0xD8,
\* channel 5 (X), 8 bits; 0xA0, channel 2, unimplemented
TscBytes == {0, 128, 144, 216, 160}

\* ADC calibration values equal to the screen calibration values
UnitCal == [adcX1 |-> 16, scrX1 |-> 16, adcX2 |-> 240, scrX2 |-> 240,
            adcY1 |-> 16, scrY1 |-> 16, adcY2 |-> 176, scrY2 |-> 176]

\* Calibration values as the firmware stores them
FirmwareCal == [adcX1 |-> 512, scrX1 |-> 32, adcX2 |-> 3584, scrX2 |-> 224,
                adcY1 |-> 768, scrY1 |-> 24, adcY2 |-> 3328, scrY2 |-> 168]

\* A first calibration point near the low end of the ADC range
LowCal == [adcX1 |-> 256, scrX1 |-> 32, adcX2 |-> 3840, scrX2 |-> 224,
           adcY1 |-> 256, scrY1 |-> 24, adcY2 |-> 3840, scrY2 |-> 168]

\* The pen state and calibration values a transfer starts with:
\* <<down, x, y, calibration>>
TscConfigs ==
    {<<TRUE, 100, 50, UnitCal>>, <<FALSE, 100, 50, UnitCal>>,
     <<TRUE, 100, 50, FirmwareCal>>, <<TRUE, 100, 50, ZeroCal>>,
     <<TRUE, 0, 0, LowCal>>}

InitTsc ==
    /\ cpu = NewCpu
    /\ div = NewHwDivisor
    /\ regs = NoRegs
    /\ \E c \in TscConfigs :
         /\ tsc = SetPen(NewHwTouchScreen(c[4]), c[1], c[2], c[3])
         /\ ev = [sent |-> <<>>, got |-> <<>>, samples |-> <<>>,
                  pens |-> {<<c[1], c[2], c[3]>>}, nset |-> 0]

\* The program runs as long as no goroutine has panicked
Running == tsc.tr.pc # "panic"

BeginTransferStep ==
    /\ tsc.caller = "none"
    /\ tsc' = BeginTransfer(tsc)
    /\ UNCHANGED <<cpu, div, regs, ev>>

\* ch <- b by the caller, received by the goroutine
OfferStep(b) ==
    /\ tsc.caller = "ready" /\ ~tsc.closed
    /\ tsc.tr.pc \in RecvPcs
    /\ Len(ev.sent) < MaxBytes
    /\ tsc' = [tsc EXCEPT !.tr = TransferReceive(tsc.tr, b, TRUE),
                          !.caller = "await"]
    /\ ev' = [ev EXCEPT !.sent = Append(ev.sent, b)]
    /\ UNCHANGED <<cpu, div, regs>>

\* <-ch by the caller, receiving what the goroutine sends
TakeReplyStep ==
    /\ tsc.caller = "await" /\ ~tsc.closed
    /\ tsc.tr.pc \in SendPcs
    /\ tsc' = [tsc EXCEPT !.tr = TransferSent(tsc.tr), !.caller = "ready"]
    /\ ev' = [ev EXCEPT !.got = Append(ev.got, tsc.tr.val)]
    /\ UNCHANGED <<cpu, div, regs>>

\* close(ch) by the caller, whether or not a reply is due to it
CloseStep ==
    /\ Running
    /\ tsc.caller \in {"ready", "await"}
    /\ tsc' = [tsc EXCEPT !.closed = TRUE, !.caller = "closed"]
    /\ UNCHANGED <<cpu, div, regs, ev>>

\* The goroutine receives from the closed channel
TransferRecvClosedStep ==
    /\ tsc.closed /\ tsc.tr.pc \in RecvPcs
    /\ tsc' = [tsc EXCEPT !.tr = TransferReceive(tsc.tr, 0, FALSE)]
    /\ UNCHANGED <<cpu, div, regs, ev>>

\* The goroutine sends to the closed channel
TransferSendClosedStep ==
    /\ tsc.closed /\ tsc.tr.pc \in SendPcs
    /\ tsc' = [tsc EXCEPT !.tr = TransferSendClosed(tsc.tr)]
    /\ UNCHANGED <<cpu, div, regs, ev>>

TransferStartStep ==
    /\ tsc.tr.pc = "start"
    /\ tsc' = TransferStart(tsc)
    /\ LET o == StartOutput(tsc)
           adchan == (tsc.tr.cmd \div 16) % 8
       IN  ev' = IF o.pc # "recv1" THEN ev
                 ELSE [ev EXCEPT !.samples = Append(ev.samples,
                          [cmd |-> tsc.tr.cmd, sample |-> o.output,
                           used |-> IF adchan \in {1, 5}
                                    THEN "down" ELSE "none",
                           down |-> adchan \in {1, 5} /\ tsc.penDown,
                           coord |-> 0])]
    /\ UNCHANGED <<cpu, div, regs>>

TransferCoordStep ==
    /\ tsc.tr.pc \in {"coordX", "coordY"}
    /\ tsc' = TransferCoord(tsc)
    /\ LET o == CoordOutput(tsc)
       IN  ev' = IF o.fault # "none" THEN ev
                 ELSE [ev EXCEPT !.samples = Append(ev.samples,
                          [cmd |-> tsc.tr.cmd, sample |-> o.output,
                           used |-> IF tsc.tr.pc = "coordY"
                                    THEN "downY" ELSE "downX",
                           down |-> TRUE,
                           coord |-> IF tsc.tr.pc = "coordY"
                                     THEN tsc.penY ELSE tsc.penX])]
    /\ UNCHANGED <<cpu, div, regs>>

NextTsc ==
    \/ BeginTransferStep
    \/ \E b \in TscBytes : OfferStep(b)
    \/ TakeReplyStep
    \/ CloseStep
    \/ TransferRecvClosedStep
    \/ TransferSendClosedStep
    \/ TransferStartStep
    \/ TransferCoordStep

SpecTsc == InitTsc /\ [][NextTsc]_vars

\* The input source: SetPen's three assignments, one step each
SetPenXStep(down, x, y) ==
    /\ Running
    /\ tsc.sp = <<>> /\ ev.nset < MaxSetPen
    /\ tsc' = SetPenX(tsc, down, x, y)
    /\ ev' = [ev EXCEPT !.pens = ev.pens \cup {<<down, x, y>>},
                        !.nset = ev.nset + 1]
    /\ UNCHANGED <<cpu, div, regs>>

SetPenYStep ==
    /\ Running
    /\ tsc.sp # <<>> /\ tsc.sp[1].at = "penY"
    /\ tsc' = SetPenY(tsc)
    /\ UNCHANGED <<cpu, div, regs, ev>>

SetPenDownStep ==
    /\ Running
    /\ tsc.sp # <<>> /\ tsc.sp[1].at = "penDown"
    /\ tsc' = SetPenDown(tsc)
    /\ UNCHANGED <<cpu, div, regs, ev>>

\* Pen states the input source sets
PenStates == {<<TRUE, 100, 50>>, <<FALSE, 7, 9>>, <<TRUE, 200, 150>>}

\* Commands offered while the pen moves: channel 1 and channel 5, 12 bits
PenBytes == {144, 208}

\* A new controller, the pen up at (0, 0), over the firmware's calibration
InitPen ==
    /\ cpu = NewCpu
    /\ div = NewHwDivisor
    /\ regs = NoRegs
    /\ tsc = NewHwTouchScreen(FirmwareCal)
    /\ ev = [sent |-> <<>>, got |-> <<>>, samples |-> <<>>,
             pens |-> {<<FALSE, 0, 0>>}, nset |-> 0]

NextPen ==
    \/ BeginTransferStep
    \/ \E b \in PenBytes : OfferStep(b)
    \/ TakeReplyStep
    \/ CloseStep
    \/ TransferRecvClosedStep
    \/ TransferSendClosedStep
    \/ TransferStartStep
    \/ TransferCoordStep
    \/ \E p \in PenStates : SetPenXStep(p[1], p[2], p[3])
    \/ SetPenYStep
    \/ SetPenDownStep

SpecPen == InitPen /\ [][NextPen]_vars

(***************************************************************************)
(*                  CLAIMS ABOUT THE TOUCHSCREEN CONTROLLER                *)
(***************************************************************************)
\* C12: once the caller has closed the channel, at whatever point of the
\* transfer (also with a reply still due to it), the goroutine does not
\* fault on the closed channel: it finds the channel closed at a receive
\* and terminates.
C12_CloseTerminates ==
    tsc.closed => tsc.tr.fault # "send on closed channel"

\* The last conversion made
LastSample == ev.samples[Len(ev.samples)]

\* C13: the pen values read for a conversion are those of one pen state,
\* the initial one or the one of a single SetPen call: the flag alone where
\* the pen is found up, the flag and the coordinate of the channel where it
\* is found down.
C13_PenSnapshot ==
    (ev.samples # <<>> /\ LastSample.used # "none") =>
        \E p \in ev.pens :
            /\ p[1] = LastSample.down
            /\ LastSample.used = "downX" => p[2] = LastSample.coord
            /\ LastSample.used = "downY" => p[3] = LastSample.coord

\* C14: the two reply bytes of a conversion frame its sample.  In 12-bit
\* mode byte 1 is sample >> 5 and has its top bit clear, byte 2 is the low
\* 8 bits of sample << 3, and (byte1 << 5) | (byte2 >> 3) is the sample; in
\* 8-bit mode, with s = sample >> 4, byte 1 is s >> 1 with its top bit clear
\* and byte 2 is the low 8 bits of s << 7.  This for every channel, pen
\* state and calibration data.
C14_Framing ==
    (ev.samples # <<>> /\ tsc.tr.pc \in {"recv1", "send1", "recv2", "send2"}) =>
        LET bits8 == (LastSample.cmd \div 8) % 2 = 1
            s == IF bits8 THEN LastSample.sample \div 16 ELSE LastSample.sample
            byte1 == IF bits8 THEN s \div 2 ELSE s \div 32
            byte2 == IF bits8 THEN (s * 128) % 256 ELSE (s * 8) % 256
        IN  /\ byte1 < 128
            /\ bits8 \/ (byte1 * 32) + (byte2 \div 8) = s
            /\ tsc.tr.pc \in {"recv1", "send1"} => tsc.tr.val = byte1
            /\ tsc.tr.pc \in {"recv2", "send2"} => tsc.tr.val = byte2

\* Where the exchange stands after the first n bytes offered, as the
\* protocol has it: scanning for a command; "b1" or "b2", the next reply
\* being the first or second sample byte of conversion k, whose command is
\* byte number at; or draining
RECURSIVE ModeAfter(_, _)
ModeAfter(sent, n) ==
    IF n = 0 THEN [mode |-> "scan", k |-> 0, at |-> 0]
    ELSE LET m == ModeAfter(sent, n - 1)
         IN  CASE m.mode = "scan" ->
                    IF sent[n] >= 128
                    THEN [mode |-> "b1", k |-> m.k + 1, at |-> n] ELSE m
               [] m.mode = "b1" -> [m EXCEPT !.mode = "b2"]
               [] m.mode = "b2" ->
                    IF sent[n] >= 128
                    THEN [mode |-> "b1", k |-> m.k + 1, at |-> n]
                    ELSE [m EXCEPT !.mode = "drain"]
               [] m.mode = "drain" -> m

\* The two bytes carrying a conversion's output in the mode of its command
SampleByte(smp, second) ==
    LET bits8 == (smp.cmd \div 8) % 2 = 1
        s == IF bits8 THEN smp.sample \div 16 ELSE smp.sample
    IN  IF second THEN (IF bits8 THEN (s * 128) % 256 ELSE (s * 8) % 256)
        ELSE (IF bits8 THEN (s \div 2) % 256 ELSE (s \div 32) % 256)

\* C15: a byte with its top bit set offered in the exchange of a second
\* sample byte is the next command: a conversion is made for it with no
\* idle scan, and the next two replies carry its sample.  With the top bit
\* clear the routine drains: every byte offered from then on is answered
\* with 0 and starts no conversion.
C15_ChainOrDrain ==
    /\ Len(ev.samples) <= ModeAfter(ev.sent, Len(ev.sent)).k
    /\ \A n \in 1 .. Len(ev.got) :
         LET m == ModeAfter(ev.sent, n - 1)
         IN  /\ m.mode = "drain" => ev.got[n] = 0
             /\ (m.mode \in {"b1", "b2"} /\ m.k >= 2) =>
                    /\ ev.samples[m.k].cmd = ev.sent[m.at]
                    /\ ev.got[n] = SampleByte(ev.samples[m.k], m.mode = "b2")

\* Channel 0 chained to channel 1 with the pen up, whose second sample byte
\* is exchanged for a 0: replies 0, 0x40, 0x00, 0x7F, 0xF8, then draining
C15_Witness ==
    /\ ev.sent = <<128, 0, 144, 0, 0>>
    /\ ev.got = <<0, 64, 0, 127, 248>>
    /\ Len(ev.samples) = 2
    /\ ev.samples[2].cmd = 144
    /\ tsc.tr.pc = "drain"
    /\ ~tsc.penDown

\* C19: while the channel is open each byte offered is answered by one reply
\* before the next is accepted, the routine sends nothing but the reply to
\* the byte it has just received, and on a fresh transfer the replies are 0
\* for each byte of the idle scan and for the command byte, then the first
\* and the second sample byte.
C19_Rendezvous ==
    /\ Len(ev.got) <= Len(ev.sent) /\ Len(ev.sent) <= Len(ev.got) + 1
    /\ tsc.tr.pc \in SendPcs => Len(ev.sent) = Len(ev.got) + 1
    /\ (tsc.tr.pc \in RecvPcs /\ ~tsc.closed) => Len(ev.sent) = Len(ev.got)
    /\ \A n \in 1 .. Len(ev.got) :
         LET m == ModeAfter(ev.sent, n - 1)
         IN  /\ m.mode = "scan" => ev.got[n] = 0
             /\ (m.mode \in {"b1", "b2"} /\ m.k = 1) =>
                    ev.got[n] = SampleByte(ev.samples[1], m.mode = "b2")

\* Two idle bytes, then channel 1 with the pen up: replies 0, 0, 0, 0x7F,
\* 0xF8
C19_Witness ==
    /\ ev.sent = <<0, 0, 144, 0, 0>>
    /\ ev.got = <<0, 0, 0, 127, 248>>
    /\ tsc.caller = "ready" /\ ~tsc.closed
    /\ ~tsc.penDown

\* C16: a conversion on a channel other than 0, 1 and 5 is made like any
\* other and its sample is the mid-scale constant 0x800 that channel 0
\* yields, for a first command and for a chained one.
C16_UnimplementedChannel ==
    \A k \in 1 .. Len(ev.samples) :
        (ev.samples[k].cmd \div 16) % 8 \notin {1, 5} =>
            ev.samples[k].sample = 2048

\* The ADC calibration values equal the screen calibration values, the
\* second screen value above the first, on both axes
UnitMapping ==
    /\ tsc.cal.adcX1 = tsc.cal.scrX1 /\ tsc.cal.adcX2 = tsc.cal.scrX2
    /\ tsc.cal.adcY1 = tsc.cal.scrY1 /\ tsc.cal.adcY2 = tsc.cal.scrY2
    /\ tsc.cal.scrX2 > tsc.cal.scrX1 /\ tsc.cal.scrY2 > tsc.cal.scrY1

\* With the pen up channel 1 yields 0xFFF and channel 5 yields 0
PenUpSamples ==
    \A k \in 1 .. Len(ev.samples) :
        LET adchan == (ev.samples[k].cmd \div 16) % 8
        IN  ~tsc.penDown =>
               /\ adchan = 1 => ev.samples[k].sample = 4095
               /\ adchan = 5 => ev.samples[k].sample = 0

\* C17 as stated: under the unit mapping, with the pen down, channel 1
\* yields the pen's Y and channel 5 the pen's X; with the pen up channel 1
\* yields 0xFFF and channel 5 yields 0.
C17_UnitMappingRaw ==
    /\ PenUpSamples
    /\ \A k \in 1 .. Len(ev.samples) :
         LET adchan == (ev.samples[k].cmd \div 16) % 8
         IN  (UnitMapping /\ tsc.penDown) =>
                /\ adchan = 1 => ev.samples[k].sample = tsc.penY
                /\ adchan = 5 => ev.samples[k].sample = tsc.penX

\* C17, amended: under the unit mapping, with the pen down, channel 1 yields
\* the pen's Y plus 1 and channel 5 the pen's X plus 1; with the pen up
\* channel 1 yields 0xFFF and channel 5 yields 0.
C17_UnitMappingPlusOne ==
    /\ PenUpSamples
    /\ \A k \in 1 .. Len(ev.samples) :
         LET adchan == (ev.samples[k].cmd \div 16) % 8
         IN  (UnitMapping /\ tsc.penDown) =>
                /\ adchan = 1 => ev.samples[k].sample = tsc.penY + 1
                /\ adchan = 5 => ev.samples[k].sample = tsc.penX + 1

\* The pen down at (100, 50) under the unit mapping: channel 1 yields 51
\* and, chained, channel 5 in 8-bit mode yields 101
C17_Witness ==
    /\ UnitMapping /\ tsc.penDown
    /\ tsc.penX = 100 /\ tsc.penY = 50
    /\ Len(ev.samples) = 2
    /\ ev.samples[1].cmd = 144 /\ ev.samples[1].sample = 51
    /\ ev.samples[2].cmd = 216 /\ ev.samples[2].sample = 101

\* The channel of the command being converted, 1 or 5, with the pen down
\* and the two screen calibration values of its axis equal
ZeroSpanConversion ==
    LET adchan == (tsc.tr.cmd \div 16) % 8
    IN  /\ tsc.penDown
        /\ tsc.tr.pc \notin {"none", "scan", "scanSend", "start"}
        /\ \/ adchan = 1 /\ tsc.cal.scrY1 = tsc.cal.scrY2
           \/ adchan = 5 /\ tsc.cal.scrX1 = tsc.cal.scrX2

\* C18: a conversion on channel 1 or 5 with the pen down and a zero
\* calibration span does not fault with a division by zero: the routine
\* goes on to deliver the two reply bytes.
C18_ZeroSpanNoFault ==
    ZeroSpanConversion =>
        /\ tsc.tr.fault # "integer divide by zero"
        /\ tsc.tr.pc # "panic"

=============================================================================
